---- MODULE Spec2Model ----
(***************************************************************************)
(* A model of log-writer: LogWriter (src/src/lib.rs), a rotating           *)
(* append-only stream writer that enforces disk usage limits.              *)
(*                                                                         *)
(* One write() call is one action.  The events a call performs, in order,  *)
(* are kept in `log`, its result in `ret` and its inputs in `call`.        *)
(* Bytes of the stream are numbered 1, 2, 3, ... in the order they are     *)
(* handed to write(); bytes of files that existed before the writer are 0. *)
(* Time is counted in ticks of 1/TicksPerSec second.                       *)
(***************************************************************************)
EXTENDS Integers, Sequences, FiniteSets, TLC

VARIABLES
    cfg,            \* LogWriter.cfg, immutable
    debug_build,    \* whether the build checks integer overflow (panics) or wraps
    dir,            \* cfg.target_dir: file name -> [kind, data]
    current_name,   \* LogWriter.current_name
    current_size,   \* LogWriter.current_size
    elapsed,        \* ticks since LogWriter.write_start (saturating at ElapsedCap)
    pos,            \* file offset of the handle inside LogWriter.current
    buf,            \* bytes held by the BufWriter of LogWriter.current
    linked,         \* whether the handle's file is still the directory entry current_name
    wall,           \* the local wall clock, in ticks
    stream,         \* number of bytes accepted by write() so far
    hist,           \* what has happened so far: subset of HistKinds
    call,           \* inputs (and pre-state) of the last call
    log,            \* events of the last call, in order
    ret             \* result of the last call

vars == <<cfg, debug_build, dir, current_name, current_size, elapsed, pos, buf,
          linked, wall, stream, hist, call, log, ret>>

----------------------------------------------------------------------------
(* Bounds of the model *)

MaxLen == 3          \* longest buffer handed to write()
MaxStream == 4       \* total number of bytes written in one behaviour
WallSpan == 2        \* seconds of wall-clock time covered
TicksPerSec == 2     \* resolution of time: ticks per second
BufCap == 2          \* capacity of the BufWriter (8 KiB in std, scaled down)
SectorSize == 4      \* bytes per st_blocks unit (512 in the code, scaled down)
WordBits == 5        \* width of u64/usize (64 in the code, scaled down)

SecsPerMin == 60     \* the %M-%S fields of the file name
None == -1           \* Option::None

U64MAX == 2^WordBits - 1
FirstSec == SecsPerMin - 1           \* the wall clock starts at second 59 of a minute
WallMin == FirstSec * TicksPerSec
WallMax == (FirstSec + WallSpan) * TicksPerSec + (TicksPerSec - 1)

Min(a, b) == IF a < b THEN a ELSE b
Max(a, b) == IF a > b THEN a ELSE b

----------------------------------------------------------------------------
(* File names: strings, modelled as sequences of character codes, compared  *)
(* lexicographically as String::cmp does.                                   *)

Prefix == <<100>>
Suffix == <<200>>

\* format!("{}{}{}", prefix, now.format("%Y-%m-%d-%H-%M-%S"), suffix): the
\* fields above the minute are constant over the time the model covers.
FormatName(w) ==
    LET sec == w \div TicksPerSec
    IN  Prefix \o <<sec \div SecsPerMin, sec % SecsPerMin>> \o Suffix

RECURSIVE NameLess(_, _)
NameLess(a, b) ==
    IF a = <<>> THEN b # <<>>
    ELSE IF b = <<>> THEN FALSE
    ELSE IF Head(a) # Head(b) THEN Head(a) < Head(b)
    ELSE NameLess(Tail(a), Tail(b))

StartsWith(s, p) == Len(s) >= Len(p) /\ SubSeq(s, 1, Len(p)) = p
EndsWith(s, p) == Len(s) >= Len(p) /\ SubSeq(s, Len(s) - Len(p) + 1, Len(s)) = p

OldName == Prefix \o <<0, 0>> \o Suffix          \* a matching file older than any new one
LateName == Prefix \o <<9, 0>> \o Suffix         \* a matching file named later than any new one
ForeignName == <<50, 0, 0>> \o Suffix            \* a file of somebody else
SubdirName == Prefix \o <<0, 1>> \o Suffix       \* a matching name that is a directory

File(data) == [kind |-> "file", data |-> data]
Subdir == [kind |-> "dir", data |-> <<>>]


----------------------------------------------------------------------------
(* The directory *)

Entry(n, e) == n :> e
Put(d, n, e) == Entry(n, e) @@ d
Remove(d, n) == [m \in (DOMAIN d) \ {n} |-> d[m]]

\* File::write at offset p of a file opened without O_APPEND and without
\* O_TRUNC: the bytes replace what is there and extend the file.
WriteAt(data, p, bytes) ==
    IF bytes = <<>> THEN data
    ELSE [i \in 1..Max(Len(data), p + Len(bytes)) |->
            IF i > p /\ i <= p + Len(bytes) THEN bytes[i - p]
            ELSE IF i <= Len(data) THEN data[i] ELSE 0]

\* the names file_listing yields: regular files whose name has the prefix
\* and the suffix
file_listing(d) ==
    {n \in DOMAIN d : d[n].kind = "file" /\ StartsWith(n, Prefix) /\ EndsWith(n, Suffix)}

\* SortedFirst with a fault: the listing is sorted in descending order
SortedLast(S) == CHOOSE n \in S : \A m \in S \ {n} : NameLess(m, n)

\* entries.sort_by(name); entries.get(0)
SortedFirst(S) == CHOOSE n \in S : \A m \in S \ {n} : NameLess(n, m)

\* meta.blocks() * 512: the space allocated to a file
Blocks(data) == (Len(data) + SectorSize - 1) \div SectorSize
AllocBytes(data) == Blocks(data) * SectorSize

RECURSIVE SumAlloc(_, _)
SumAlloc(d, S) ==
    IF S = {} THEN 0
    ELSE LET n == CHOOSE x \in S : TRUE
         IN  AllocBytes(d[n].data) + SumAlloc(d, S \ {n})

\* the sum enough_space computes over the listing
Used(d) == SumAlloc(d, file_listing(d))

\* space taken by every regular file of the directory
Occupied(d) == SumAlloc(d, {n \in DOMAIN d : d[n].kind = "file"})

----------------------------------------------------------------------------
(* Events *)

Ev(e, n, s) == [ev |-> e, name |-> n, cur |-> s.current_name]

Events(l, e) == {i \in 1..Len(l) : l[i].ev = e}
Count(l, e) == Cardinality(Events(l, e))

----------------------------------------------------------------------------
(* Space Policy *)

\* f64 -> u64 `as` cast of a non-negative product: truncates and saturates
AsU64(x) == IF x < 0 THEN 0 ELSE IF x > U64MAX THEN U64MAX ELSE x

\* an Option<f64> fraction: [num, den], or NoFrac for Option::None
NoFrac == [num |-> None, den |-> 1]

\* (fraction * total_space as f64) as u64
OfTotal(frac, total) == AsU64((frac.num * total) \div frac.den)

\* the result of a checked integer operation: a value, or a panic
Val(v) == [panic |-> FALSE, v |-> v]
Panic == [panic |-> TRUE, v |-> 0]

\* a - b on u64: panics on underflow in a build that checks it, wraps otherwise
SubU64(a, b, dbg) ==
    IF b <= a THEN Val(a - b)
    ELSE IF dbg THEN Panic
    ELSE Val((a - b) % (U64MAX + 1))

\* the cap relative to the total space, less `reserved`
RelativeCap(c, fs, dbg) ==
    IF c.reserved = None
    THEN Val(OfTotal(c.max_use_of_total, fs.total_space))
    ELSE SubU64(OfTotal(c.max_use_of_total, fs.total_space), c.reserved, dbg)

\* size_limit after the absolute cap
AbsoluteLimit(c) ==
    IF c.max_use_bytes # None THEN Min(U64MAX, c.max_use_bytes) ELSE U64MAX

\* size_limit = min(size_limit, max_use_bytes) with the relative cap r
MinLimit(l1, r) == IF r.panic THEN Panic ELSE Val(Min(l1, r.v))

\* size_limit of enough_space
SizeLimit(c, fs, dbg) ==
    IF c.max_use_of_total = NoFrac THEN Val(AbsoluteLimit(c))
    ELSE MinLimit(AbsoluteLimit(c), RelativeCap(c, fs, dbg))

\* fsstat.available_space - len as u64
AvailAfter(fs, len, dbg) == SubU64(fs.available_space, len, dbg)

\* avail as f64 / total as f64 < min_avail_of_total; a division by zero
\* gives an infinity or a NaN, which is below nothing
BelowFloor(frac, avail, total) ==
    /\ total > 0
    /\ avail * frac.den < frac.num * total

\* the min_avail_of_total test of enough_space, given avail
FloorCheck(c, fs, avail) ==
    IF avail.panic THEN "panic"
    ELSE IF BelowFloor(c.min_avail_of_total, avail.v, fs.total_space) THEN "false"
    ELSE "true"

\* the tests of enough_space, given size_limit
SpaceCheck(c, d, fs, len, dbg, limit) ==
    IF limit.panic THEN "panic"
    ELSE IF limit.v # U64MAX /\ Used(d) > limit.v THEN "false"
    ELSE IF c.min_avail_of_total = NoFrac THEN "true"
    ELSE FloorCheck(c, fs, AvailAfter(fs, len, dbg))

\* enough_space: "true", "false", or "panic" on an integer overflow in a
\* build that checks it
enough_space(c, d, fs, len, dbg) ==
    SpaceCheck(c, d, fs, len, dbg, SizeLimit(c, fs, dbg))

----------------------------------------------------------------------------
(* The writer.  A writer state s is the record                            *)
(*   [dir, current_name, current_size, elapsed, pos, buf, linked,         *)
(*    log, err, res]                                                      *)
(* err is "none" or the error the call returns, res the bool of an        *)
(* Ok(bool).                                                              *)

Faults == {"none", "create", "end_file", "start_file", "remove", "statvfs"}

Logged(s, e, n) == [s EXCEPT !.log = Append(@, Ev(e, n, s))]
Failed(s, e) == [s EXCEPT !.err = e]

\* OpenOptions::new().write(true).create(true).open(name): a file that
\* exists is kept as it is
OpenCreate(d, name, fault) ==
    IF fault = "create"
    THEN [err |-> "io", name |-> name, dir |-> d, existed |-> FALSE]
    ELSE IF name \notin DOMAIN d
    THEN [err |-> "none", name |-> name, dir |-> Put(d, name, File(<<>>)),
          existed |-> FALSE]
    ELSE IF d[name].kind = "file"
    THEN [err |-> "none", name |-> name, dir |-> d, existed |-> TRUE]
    ELSE [err |-> "io", name |-> name, dir |-> d, existed |-> TRUE]

\* create_next_file: the file named after the current second ("reopen" in
\* the log when a file of that name existed, "create" otherwise)
create_next_file(d, w, fault) == OpenCreate(d, FormatName(w), fault)

\* BufWriter::flush_buf: the buffered bytes go to the file at the handle's offset
flush_buf(s) ==
    [s EXCEPT !.dir = IF s.linked /\ s.buf # <<>>
                      THEN [@ EXCEPT ![s.current_name].data = WriteAt(@, s.pos, s.buf)]
                      ELSE @,
              !.pos = @ + Len(s.buf),
              !.buf = <<>>]

\* self.current.flush()
flush(s) == Logged(flush_buf(s), "flush", s.current_name)

\* reset with a fault: current_size is carried over to the new file
reset_keeps_size(s, name) ==
    [s EXCEPT !.current_name = name, !.elapsed = 0, !.pos = 0, !.buf = <<>>,
              !.linked = TRUE]

\* reset with a fault: write_start is not renewed
reset_keeps_write_start(s, name) ==
    [s EXCEPT !.current_name = name, !.current_size = 0, !.pos = 0, !.buf = <<>>,
              !.linked = TRUE]

\* next_file: the writer's fields are pointed at the new file
reset(s, name) ==
    [s EXCEPT !.current_name = name,
              !.current_size = 0,
              !.elapsed = 0,
              !.pos = 0,
              !.buf = <<>>,
              !.linked = TRUE]

\* next_file: self.callbacks.clone().start_file(self)?
start_file(s, fault) ==
    IF fault = "start_file"
    THEN Failed(Logged(s, "start_file", s.current_name), "hook")
    ELSE Logged(s, "start_file", s.current_name)

\* switch_file with a fault: the new file is not announced
switch_file_no_start(s, name, fault) == Logged(reset(flush(s), name), "reset", name)

\* next_file from the flush on
switch_file(s, name, fault) ==
    start_file(Logged(reset(flush(s), name), "reset", name), fault)

\* next_file: self.callbacks.clone().end_file(self)?
end_file(s, name, fault) ==
    IF fault = "end_file"
    THEN Failed(Logged(s, "end_file", s.current_name), "hook")
    ELSE switch_file(Logged(s, "end_file", s.current_name), name, fault)

\* created with a fault: the size is reset before the new file is there
created_loses_size(s, c, fault) ==
    IF c.err # "none" THEN Failed([s EXCEPT !.current_size = 0], c.err)
    ELSE end_file(Logged([s EXCEPT !.dir = c.dir],
                         IF c.existed THEN "reopen" ELSE "create", c.name),
                  c.name, fault)

\* next_file, given the result c of create_next_file
created(s, c, fault) ==
    IF c.err # "none" THEN Failed(s, c.err)
    ELSE end_file(Logged([s EXCEPT !.dir = c.dir],
                         IF c.existed THEN "reopen" ELSE "create", c.name),
                  c.name, fault)

\* next_file with a fault: the old file is closed before the new one is made
opened_after_close(s, c, fault) ==
    IF c.err # "none" THEN Failed(s, c.err)
    ELSE start_file(Logged(reset(Logged([s EXCEPT !.dir = c.dir],
                                        IF c.existed THEN "reopen" ELSE "create",
                                        c.name),
                                 c.name),
                           "reset", c.name),
                    fault)

closed_first(s, w, fault) == opened_after_close(s, create_next_file(s.dir, w, fault), fault)

next_file_closes_first(s, w, fault) ==
    IF fault = "end_file"
    THEN Failed(Logged(s, "end_file", s.current_name), "hook")
    ELSE closed_first(flush(Logged(s, "end_file", s.current_name)), w, fault)

\* LogWriter::next_file
next_file(s, w, fault) == created(s, create_next_file(s.dir, w, fault), fault)

\* is_current with a fault: the oldest file is never taken for the current one
is_current_never(s, name) == FALSE

\* cleanup: *file_name == self.current_name
is_current(s, name) == name = s.current_name

\* no_space with a fault: Ok(false), as the comment above cleanup says
no_space_ok_false(s) == [s EXCEPT !.res = FALSE]

\* cleanup: return Err(Error::from_raw_os_error(libc::ENOSPC))
no_space(s) == Failed(s, "ENOSPC")

\* cleanup, given the first entry of the sorted listing
remove_oldest(s, oldest, fault) ==
    IF is_current(s, oldest) THEN no_space(s)
    ELSE IF fault = "remove"
    THEN Failed([s EXCEPT !.dir = Remove(@, oldest)], "io")
    ELSE Logged([s EXCEPT !.dir = Remove(@, oldest), !.res = TRUE], "delete", oldest)

\* cleanup: deletes the oldest matching file unless it is the current one
cleanup(s, fault) ==
    IF file_listing(s.dir) = {} THEN no_space(s)
    ELSE remove_oldest(s, SortedFirst(file_listing(s.dir)), fault)

\* what statvfs reports after files were deleted since the snapshot fs0,
\* taken when the directory was d0
Statvfs(fs0, d0, d) ==
    [fs0 EXCEPT !.available_space = @ + (Occupied(d0) - Occupied(d))]

\* while !self.enough_space(len)? { if !self.cleanup()? { break } }
RECURSIVE admit(_, _, _, _, _, _, _)

\* the loop after cleanup returned s
cleaned(s, c, len, fs0, d0, dbg, fault) ==
    IF s.err # "none" THEN s
    ELSE IF ~s.res THEN Logged(s, "break", s.current_name)
    ELSE admit(s, c, len, fs0, d0, dbg, fault)

\* checked with a fault: a rejected write goes on without reclamation
checked_no_cleanup(s, e, c, len, fs0, d0, dbg, fault) ==
    IF e = "panic" THEN Failed(s, "panic")
    ELSE IF e = "true" THEN s
    ELSE Logged([s EXCEPT !.res = FALSE], "reject", s.current_name)

\* the loop after enough_space returned e
checked(s, e, c, len, fs0, d0, dbg, fault) ==
    IF e = "panic" THEN Failed(s, "panic")
    ELSE IF e = "true" THEN s
    ELSE cleaned(cleanup(Logged([s EXCEPT !.res = FALSE], "reject", s.current_name),
                         fault),
                 c, len, fs0, d0, dbg, fault)

admit(s, c, len, fs0, d0, dbg, fault) ==
    IF fault = "statvfs" THEN Failed(s, "io")
    ELSE
    checked(s, enough_space(c, s.dir, Statvfs(fs0, d0, s.dir), len, dbg),
            c, len, fs0, d0, dbg, fault)

\* BufWriter::write once there is room in the buffer
buffer_or_write(s, bytes) ==
    IF Len(bytes) >= BufCap
    THEN [s EXCEPT !.dir = IF s.linked
                           THEN [@ EXCEPT ![s.current_name].data =
                                              WriteAt(@, s.pos, bytes)]
                           ELSE @,
                   !.pos = @ + Len(bytes)]
    ELSE [s EXCEPT !.buf = @ \o bytes]

\* BufWriter::write
bufwriter_write(s, bytes) ==
    IF Len(s.buf) + Len(bytes) > BufCap
    THEN buffer_or_write(flush_buf(s), bytes)
    ELSE buffer_or_write(s, bytes)

\* self.current.write(buf)?; self.current_size += written
append(s, bytes) ==
    Logged([bufwriter_write(s, bytes) EXCEPT !.current_size = @ + Len(bytes)],
           "append", s.current_name)

\* size_rotation with a fault: a file that the buffer fills exactly is rotated
size_rotation_at_limit(s, c, w, len, fault) ==
    IF s.current_size + len >= c.max_file_size THEN next_file(s, w, fault) ELSE s

\* write: if self.current_size + buf.len() > self.cfg.max_file_size
size_rotation(s, c, w, len, fault) ==
    IF s.current_size + len > c.max_file_size THEN next_file(s, w, fault) ELSE s

\* write: if let Some(max_file_age) = self.cfg.max_file_age
age_rotation(s, c, w, fault) ==
    IF s.err # "none" THEN s
    ELSE IF c.max_file_age # None /\ (s.elapsed \div TicksPerSec) > c.max_file_age
    THEN next_file(s, w, fault)
    ELSE s

\* write: the admission loop
admission(s, c, len, fs, dbg, fault) ==
    IF s.err # "none" THEN s ELSE admit(s, c, len, fs, s.dir, dbg, fault)

\* write: the append
appended(s, bytes) == IF s.err # "none" THEN s ELSE append(s, bytes)

\* LogWriter::write
write(s, c, w, bytes, fs, dbg, fault) ==
    appended(admission(age_rotation(size_rotation(s, c, w, Len(bytes), fault),
                                    c, w, fault),
                       c, Len(bytes), fs, dbg, fault),
             bytes)

----------------------------------------------------------------------------
(* Configurations and inputs *)

\* the bytes from + 1 .. from + len of the stream
Bytes(from, len) == [i \in 1..len |-> from + i]

Cfg(size, age, use_bytes, use_of_total, reserved, avail_of_total, avail_bytes) ==
    [max_file_size |-> size, max_file_age |-> age,
     max_use_bytes |-> use_bytes, max_use_of_total |-> use_of_total,
     reserved |-> reserved,
     min_avail_of_total |-> avail_of_total, min_avail_bytes |-> avail_bytes,
     warn_if_avail_reached |-> FALSE]

Half == [num |-> 1, den |-> 2]

Configs ==
    { Cfg(MaxLen, None, None, NoFrac, None, NoFrac, None),      \* size only
      Cfg(MaxLen - 1, 1, None, NoFrac, None, NoFrac, None),     \* size and age
      Cfg(MaxLen, None, AllocBytes(Bytes(0, MaxLen)),
          NoFrac, None, NoFrac, None),                          \* absolute cap
      Cfg(MaxLen, None, MaxLen, NoFrac, None, NoFrac, None),    \* cap = max_file_size
      Cfg(1, None, AllocBytes(Bytes(0, 1)),
          NoFrac, None, NoFrac, None),                          \* smallest files
      Cfg(MaxLen, None, 6, Half, 1, NoFrac, None),              \* both caps, reserved
      Cfg(MaxLen, None, 6, Half, 5, NoFrac, None),              \* reserved above the cap
      Cfg(MaxLen, None, U64MAX, Half, None, NoFrac, None),      \* largest absolute cap
      Cfg(MaxLen, None, None, NoFrac, None, Half, None),        \* relative floor
      Cfg(MaxLen, None, None, NoFrac, None, NoFrac, 6) }        \* absolute floor

\* whether a configuration reads the figures of statvfs
ReadsFs(c) == c.max_use_of_total # NoFrac \/ c.min_avail_of_total # NoFrac
\* whether a configuration has a subtraction that can overflow
CanOverflow(c) ==
    \/ c.max_use_of_total # NoFrac /\ c.reserved # None
    \/ c.min_avail_of_total # NoFrac

FsFull == [total_space |-> 8, available_space |-> 8]
FsSnapshots(c) ==
    IF ReadsFs(c) \/ c.min_avail_bytes # None
    THEN {FsFull, [total_space |-> 8, available_space |-> 2]}
    ELSE {FsFull}

\* fractions of a second are observable only through max_file_age
TickSteps(c) == IF c.max_file_age = None THEN {TicksPerSec} ELSE {1}

Builds(c) == IF CanOverflow(c) THEN BOOLEAN ELSE {FALSE}

Old == File(<<0, 0, 0>>)
InitDirs ==
    { <<>>,
      Entry(OldName, Old),
      Entry(OldName, Old) @@ Entry(LateName, Old) @@ Entry(ForeignName, Old)
        @@ Entry(SubdirName, Subdir) }

HistKinds == {"deleted", "failed", "external", "preexisting", "stepback", "reopened",
              "rotated", "oversize"}

\* the errors after which the caller gives the writer up (an I/O error, a
\* failed hook, a panic); after ENOSPC the caller may write again
Fatal == {"io", "hook", "panic"}

NoCall == [op |-> "none", len |-> 0, fs |-> FsFull, fault |-> "none",
           pre_size |-> 0, pre_elapsed |-> 0, pre_others |-> 0]
OkRet(n) == [kind |-> "Ok", n |-> n]
ErrRet(e) == [kind |-> e, n |-> 0]

ElapsedCap == (1 + 1) * TicksPerSec

\* the writer state held in the variables
Self ==
    [dir |-> dir, current_name |-> current_name, current_size |-> current_size,
     elapsed |-> elapsed, pos |-> pos, buf |-> buf, linked |-> linked,
     log |-> <<>>, err |-> "none", res |-> FALSE]


----------------------------------------------------------------------------
(* Initial state: after LogWriter::new succeeded *)

InitWith(d, c) ==
    /\ c.err = "none"
    /\ dir = c.dir
    /\ current_name = c.name
    /\ hist = IF file_listing(d) # {} THEN {"preexisting"} ELSE {}
    /\ log = <<[ev |-> "create", name |-> c.name, cur |-> c.name],
               [ev |-> "start_file", name |-> c.name, cur |-> c.name]>>

Init ==
    /\ cfg \in Configs
    /\ debug_build \in Builds(cfg)
    /\ wall = WallMin
    /\ \E d \in InitDirs : InitWith(d, create_next_file(d, wall, "none"))
    /\ current_size = 0
    /\ elapsed = 0
    /\ pos = 0
    /\ buf = <<>>
    /\ linked = TRUE
    /\ stream = 0
    /\ call = [NoCall EXCEPT !.op = "new"]
    /\ ret = OkRet(0)

----------------------------------------------------------------------------
(* Actions *)

\* the writer after a call that left it as s
Becomes(s) ==
    /\ dir' = s.dir
    /\ current_name' = s.current_name
    /\ current_size' = s.current_size
    /\ elapsed' = s.elapsed
    /\ pos' = s.pos
    /\ buf' = s.buf
    /\ linked' = s.linked
    /\ log' = s.log

\* write returns, leaving the writer as s
Returns(s, len, fs, fault) ==
    /\ fault # "none" => s.err \in {"io", "hook"}
    /\ Becomes(s)
    /\ ret' = IF s.err = "none" THEN OkRet(len) ELSE ErrRet(s.err)
    /\ stream' = IF s.err = "none" THEN stream + len ELSE stream
    /\ hist' = hist \cup (IF Events(s.log, "delete") # {} THEN {"deleted"} ELSE {})
                    \cup (IF s.err # "none" THEN {"failed"} ELSE {})
                    \cup (IF Events(s.log, "reopen") # {} THEN {"reopened"} ELSE {})
                    \cup (IF Events(s.log, "create") \cup Events(s.log, "reopen") # {}
                          THEN {"rotated"} ELSE {})
                    \cup (IF len > cfg.max_file_size THEN {"oversize"} ELSE {})
    /\ call' = [op |-> "write", len |-> len, fs |-> fs, fault |-> fault,
                pre_size |-> current_size, pre_elapsed |-> elapsed,
                pre_others |-> Cardinality(file_listing(dir) \ {current_name})]

\* writer.write(buf)
Write ==
    \E len \in 1..MaxLen, fs \in FsSnapshots(cfg), fault \in Faults :
      /\ ret.kind \notin Fatal
      /\ stream + len <= MaxStream
      /\ Returns(write(Self, cfg, wall, Bytes(stream, len), fs, debug_build, fault),
                 len, fs, fault)
      /\ UNCHANGED <<cfg, debug_build, wall>>

\* writer.flush()
Flush ==
    /\ ret.kind \notin Fatal
    /\ Becomes(flush(Self))
    /\ ret' = OkRet(0)
    /\ call' = [NoCall EXCEPT !.op = "flush", !.pre_size = current_size,
                              !.pre_elapsed = elapsed]
    /\ UNCHANGED <<cfg, debug_build, wall, stream, hist>>

\* the environment disturbs a behaviour at most once
Disturbed == hist \cap {"external", "stepback"} # {}

Idle == /\ call' = NoCall
        /\ log' = <<>>
        /\ ret' = OkRet(0)

\* time passes: one tick on the monotonic clock and on the wall clock (the
\* monotonic clock is read only when max_file_age is set, and is kept only then)
Tick ==
    /\ ret.kind \notin Fatal
    /\ \E n \in TickSteps(cfg) :
         /\ wall + n <= WallMax
         /\ wall' = wall + n
         /\ elapsed' = IF cfg.max_file_age = None THEN 0
                       ELSE Min(elapsed + n, ElapsedCap)
    /\ Idle
    /\ UNCHANGED <<cfg, debug_build, dir, current_name, current_size, pos, buf,
                   linked, stream, hist>>

\* the local time is set back by one second (clock adjustment, end of
\* daylight saving time); the monotonic clock is not affected
ClockStepBack ==
    /\ ret.kind \notin Fatal
    /\ ~Disturbed
    /\ wall - TicksPerSec >= WallMin
    /\ wall' = wall - TicksPerSec
    /\ hist' = hist \cup {"stepback"}
    /\ Idle
    /\ UNCHANGED <<cfg, debug_build, dir, current_name, current_size, elapsed, pos,
                   buf, linked, stream>>

\* another process removes a file of the directory
ExternalRemove ==
    \E n \in DOMAIN dir :
      /\ ret.kind \notin Fatal
      /\ ~Disturbed
      /\ dir[n].kind = "file"
      /\ dir' = Remove(dir, n)
      /\ linked' = (linked /\ n # current_name)
      /\ hist' = hist \cup {"external"}
      /\ Idle
      /\ UNCHANGED <<cfg, debug_build, current_name, current_size, elapsed, pos,
                     buf, wall, stream>>

Next == Write \/ Flush \/ Tick \/ ClockStepBack \/ ExternalRemove

Spec == Init /\ [][Next]_vars

----------------------------------------------------------------------------
(* Views used by the properties *)

\* the directory as it is once the buffered bytes are flushed
FlushedDir == flush_buf(Self).dir

\* the content of a file once the buffered bytes are flushed
FileData(n) == flush_buf(Self).dir[n].data

\* the last call was a write
Wrote == call.op = "write"
WroteOk == Wrote /\ ret.kind = "Ok"

\* the rotations of the last call
Rotations == Count(log, "create") + Count(log, "reopen")

\* the contents of the files S of d, concatenated in the order of their names
RECURSIVE ConcatSorted(_, _)
ConcatSorted(d, S) ==
    IF S = {} THEN <<>>
    ELSE LET n == SortedFirst(S)
         IN  d[n].data \o ConcatSorted(d, S \ {n})

----------------------------------------------------------------------------
(* C1: no file that reclamation deletes is the file open for writing: every *)
(* deleted file has a name different from current_name at the moment of     *)
(* the deletion, and a current file that was in the directory is still in   *)
(* it after the call.                                                       *)
C1_NeverDeletesCurrent ==
    /\ \A i \in Events(log, "delete") : log[i].name # log[i].cur
    /\ linked => current_name \in file_listing(dir)

\* reclamation deleted a file while the current file was in the directory
C1_Witness ==
    /\ Wrote
    /\ Events(log, "delete") # {}
    /\ linked
    /\ current_name \in file_listing(dir)

(* C2: when the buffer of a write is no longer than max_file_size, the      *)
(* accumulated size of the current file is at most max_file_size after the  *)
(* call, whether or not the call rotated; and where no buffer is longer     *)
(* than max_file_size, current_size never exceeds it.                       *)
C2_SizeWithinMax ==
    /\ (WroteOk /\ call.len <= cfg.max_file_size) => current_size <= cfg.max_file_size
    /\ MaxLen <= cfg.max_file_size => current_size <= cfg.max_file_size

\* a write after a rotation-free fill, and a write that rotated a non-empty file
C2_Witness ==
    /\ WroteOk
    /\ call.len <= cfg.max_file_size
    /\ call.pre_size > 0
    /\ Rotations = 1
    /\ current_size = call.len

(* C3: a successful write with current_size + len > max_file_size rotates   *)
(* exactly once, also when max_file_age is set and exceeded, and leaves     *)
(* current_size = len.                                                      *)
C3_OneRotation ==
    (WroteOk /\ call.pre_size + call.len > cfg.max_file_size)
        => (Rotations = 1 /\ current_size = call.len)

\* a size-triggered rotation of a file that was also older than max_file_age
C3_Witness ==
    /\ WroteOk
    /\ call.pre_size > 0
    /\ call.pre_size + call.len > cfg.max_file_size
    /\ cfg.max_file_age # None
    /\ (call.pre_elapsed \div TicksPerSec) > cfg.max_file_age
    /\ Rotations = 1

(* C4: a size-triggered rotation produces a new file distinct from the      *)
(* superseded one, whatever the time between the writes: the superseded     *)
(* file keeps exactly the bytes written to it and the new file holds        *)
(* exactly the bytes of the write that rotated.                             *)
C4_RotationMakesNewFile ==
    (WroteOk /\ hist \subseteq {"reopened", "rotated", "oversize"}
       /\ Rotations = 1 /\ call.pre_size > 0
       /\ call.pre_size + call.len > cfg.max_file_size)
        => /\ current_name # log[1].cur
           /\ FileData(current_name) = Bytes(stream - call.len, call.len)
           /\ FileData(log[1].cur) =
                  Bytes(stream - call.len - call.pre_size, call.pre_size)

(* C5: round trip: when nothing was reclaimed and no call failed, the       *)
(* contents of the produced files, concatenated in the order of their       *)
(* names, are the written buffers in call order, however many rotations     *)
(* occurred and however closely they followed each other.                   *)
C5_RoundTrip ==
    hist \subseteq {"reopened", "rotated", "oversize"}
        => ConcatSorted(FlushedDir, file_listing(dir)) = Bytes(0, stream)

(* C6: with max_file_count = 2, after any sequence of writes and rotations  *)
(* the directory holds at most 2 matching files.                            *)
C6_CountWithinCap ==
    (Wrote /\ hist \subseteq {"deleted", "failed", "reopened", "rotated", "oversize"})
        => Cardinality(file_listing(dir)) <= 2

\* a rejection by the Space Policy after which reclamation deleted nothing
Exhausted ==
    /\ Wrote
    /\ call.fault = "none"
    /\ \E i \in Events(log, "reject") : i = Len(log) \/ log[i + 1].ev # "delete"

(* C7: when the Space Policy rejects a write and reclamation has nothing    *)
(* left to delete, the write still appends the bytes and returns the count  *)
(* written.                                                                 *)
C7_WriteAnyway ==
    Exhausted => (ret = OkRet(call.len) /\ Events(log, "append") # {})

\* no byte of a buffer that was not accepted is in a file or in the buffer
NothingAppended ==
    /\ \A n \in DOMAIN dir : \A i \in 1..Len(dir[n].data) : dir[n].data[i] <= stream
    /\ \A i \in 1..Len(buf) : buf[i] <= stream
    /\ Events(log, "append") = {}

C8_WitnessEmpty ==
    /\ ret.kind = "ENOSPC"
    /\ file_listing(dir) = {}

\* the smaller of the absolute cap and of the relative cap less reserved
\* (never below 0), as the claim has it
ClaimedBound(c, fs) ==
    Min(c.max_use_bytes,
        Max(0, OfTotal(c.max_use_of_total, fs.total_space)
               - (IF c.reserved = None THEN 0 ELSE c.reserved)))

(* C9: with an absolute and a relative occupancy cap, enough_space rejects  *)
(* exactly when the summed size of the matching files exceeds the smaller   *)
(* of the two, also when reserved is larger than the relative cap.          *)
C9_SmallerCap ==
    (cfg.max_use_bytes # None /\ cfg.max_use_of_total # NoFrac
       /\ cfg.min_avail_of_total = NoFrac)
        => \A fs \in FsSnapshots(cfg) :
             (enough_space(cfg, dir, fs, 1, debug_build) = "false")
                 <=> (Used(dir) > ClaimedBound(cfg, fs))

(* C10: when min_avail_bytes is set and available_space less the pending    *)
(* length is below it, the Space Policy rejects the write, so the bytes are *)
(* not appended before reclamation was attempted.                           *)
C10_AbsoluteFloor ==
    (Wrote /\ call.fault = "none" /\ cfg.min_avail_bytes # None
       /\ call.fs.available_space - call.len < cfg.min_avail_bytes)
        => Events(log, "reject") # {}

(* C11: when every write keeps current_size + len <= max_file_size, no      *)
(* max_file_age is set and the space limits are satisfied, no write         *)
(* rotates; and as long as no rotation has occurred in a directory that     *)
(* was empty at construction, the directory holds exactly one file, which,  *)
(* once flushed, holds the written buffers in call order.                   *)
C11_NoRotation ==
    /\ (Wrote /\ call.fault = "none" /\ cfg.max_file_age = None
          /\ call.pre_size + call.len <= cfg.max_file_size
          /\ Events(log, "reject") = {} /\ ret.kind # "panic")
         => (Rotations = 0 /\ ret = OkRet(call.len))
    /\ hist = {}
         => /\ DOMAIN dir = {current_name}
            /\ dir[current_name].kind = "file"
            /\ FileData(current_name) = Bytes(0, stream)
            /\ (call.op = "flush" => dir[current_name].data = Bytes(0, stream))

\* a write that fills a non-empty file exactly to max_file_size: no rotation,
\* one file holding both buffers
C11_Witness ==
    /\ WroteOk
    /\ hist = {}
    /\ cfg.max_file_age = None
    /\ call.pre_size > 0
    /\ call.pre_size + call.len = cfg.max_file_size
    /\ Rotations = 0
    /\ DOMAIN dir = {current_name}
    /\ FileData(current_name) = Bytes(0, stream)

(* C12: cleanup deletes the matching file that is smallest in name order    *)
(* among those that are not the current file, and fails with ENOSPC only    *)
(* when no matching file other than the current one is in the directory:    *)
(* when the current file is the smallest by name and other matching files   *)
(* exist, one of those is deleted.                                          *)
C12_DeletesOldestOther ==
    /\ \A i \in Events(log, "delete") :
         /\ log[i].name # log[i].cur
         /\ \A m \in file_listing(dir) \ {current_name} : NameLess(log[i].name, m)
    /\ (ret.kind = "ENOSPC" /\ "external" \notin hist)
         => file_listing(dir) \ {current_name} = {}

(* C13: when the file cleanup selected has been removed by another process  *)
(* between the listing and the deletion, the failure of the deletion is     *)
(* not returned by write: reclamation goes on with the next candidate, and  *)
(* the call ends with the append or with ENOSPC.                            *)
C13_VanishedFileRetried ==
    (Wrote /\ call.fault = "remove") => ret.kind \in {"Ok", "ENOSPC"}

\* the events at which a rotation made or reopened its file
Creations == Events(log, "create") \cup Events(log, "reopen")

\* the event before event j of the last call is e
Follows(j, e) == j > 1 /\ log[j - 1].ev = e

(* C14 as stated: within one rotation the closing notification comes first, *)
(* then the flush, then the creation of the new file, the reset and the     *)
(* opened notification: the new file is not made before the closing         *)
(* notification has completed.                                              *)
C14_CloseThenCreate ==
    Wrote => /\ \A j \in Creations : j > 2 /\ log[j - 2].ev = "end_file"
                                          /\ log[j - 1].ev = "flush"
             /\ \A j \in Events(log, "reset") : j > 1 /\ (j - 1) \in Creations
             /\ \A j \in Events(log, "start_file") : Follows(j, "reset")

(* C14 as amended: within one rotation the new file is made first, then     *)
(* comes the closing notification (current_name still the old file), the    *)
(* flush of the old file, the reset of current_name, current_size and the   *)
(* open time, and the opened notification (current_name the new file); a    *)
(* rotation without a failure performs all five steps.                      *)
C14_CreateThenClose ==
    Wrote => /\ \A j \in Events(log, "end_file") :
                   /\ j > 1 /\ (j - 1) \in Creations
                   /\ log[j].cur = log[j - 1].cur
                   /\ log[j].cur = log[j].name
             /\ \A j \in Events(log, "flush") : Follows(j, "end_file")
             /\ \A j \in Events(log, "reset") : Follows(j, "flush")
             /\ \A j \in Events(log, "start_file") :
                   /\ Follows(j, "reset")
                   /\ (j - 4) \in Creations
                   /\ log[j].cur = log[j - 4].name
             /\ call.fault = "none" =>
                   \A j \in Creations : j + 4 <= Len(log) /\ log[j + 4].ev = "start_file"
             /\ (ret.kind = "Ok" /\ Creations # {}) =>
                   (current_size = call.len /\ elapsed = 0)

\* a rotation of a non-empty file into a file of another name
C14_Witness ==
    /\ WroteOk
    /\ call.pre_size > 0
    /\ Creations # {}
    /\ Events(log, "start_file") # {}
    /\ log[1].ev = "create"
    /\ log[2].ev = "end_file"
    /\ log[1].name # log[2].cur
    /\ log[1].name \in DOMAIN dir

(* C15: when the creation of the new file fails during a rotation, write   *)
(* returns that error and leaves the writer at the previous file:           *)
(* current_name, current_size and the open time are unchanged, no           *)
(* notification has been invoked, no file has been deleted or made and      *)
(* nothing of the buffer has been appended.                                 *)
C15_CreateFails ==
    [][(call'.op = "write" /\ call'.fault = "create")
         => /\ ret'.kind = "io"
            /\ current_name' = current_name
            /\ current_size' = current_size
            /\ elapsed' = elapsed
            /\ dir' = dir /\ buf' = buf /\ pos' = pos /\ linked' = linked
            /\ stream' = stream
            /\ log' = <<>>]_vars

\* a rotation of a non-empty file failed at the creation of the new file
C15_Witness ==
    /\ Wrote
    /\ call.fault = "create"
    /\ ret.kind = "io"
    /\ call.pre_size > 0
    /\ current_size = call.pre_size
    /\ log = <<>>

\* the last call found the current file open for more than max_file_age
Overage ==
    /\ cfg.max_file_age # None
    /\ call.pre_elapsed > cfg.max_file_age * TicksPerSec

(* C16: with max_file_age set, every write that arrives when the current    *)
(* file has been open longer than max_file_age, be it by a fraction of a    *)
(* second, rotates before it appends, whatever the size of the file; and    *)
(* the current file changes only inside a write call, never because time    *)
(* passes.                                                                  *)
C16_AgeRotation ==
    /\ []((WroteOk /\ Overage) => (Rotations = 1 /\ current_size = call.len))
    /\ [][call'.op # "write" => current_name' = current_name]_vars

(* C17: with an availability floor configured and a pending write longer    *)
(* than the available space of the file system, available_space - len       *)
(* neither wraps around nor aborts: the write is rejected by the Space      *)
(* Policy as being below the floor.                                         *)
C17_NoWrapBelowFloor ==
    (Wrote /\ call.fault = "none" /\ cfg.min_avail_of_total # NoFrac
       /\ call.len > call.fs.available_space)
        => (ret.kind # "panic" /\ Events(log, "reject") # {})

\* only an occupancy cap in bytes is configured, and no buffer was longer
\* than max_file_size
CapOnly ==
    /\ cfg.max_use_bytes # None
    /\ cfg.max_use_of_total = NoFrac
    /\ cfg.min_avail_of_total = NoFrac
    /\ cfg.min_avail_bytes = None
    /\ "oversize" \notin hist

\* no matching file at construction, names increasing from one rotation to
\* the next, no change to the directory from outside
Undisturbed == hist \cap {"preexisting", "stepback", "reopened", "external"} = {}

(* C18 as stated: with only an occupancy cap max_use_bytes >= max_file_size, *)
(* writes no longer than max_file_size, no matching file at construction,   *)
(* increasing names and no external change, no write fails with ENOSPC.     *)
C18_NeverEnospc ==
    (CapOnly /\ cfg.max_use_bytes >= cfg.max_file_size /\ Undisturbed)
        => ret.kind # "ENOSPC"

(* C18 as amended: the same, for a cap that is at least the space allocated *)
(* to a file of max_file_size bytes: whenever the summed size exceeds the   *)
(* cap, reclamation deletes files other than the current one until the      *)
(* write is admitted.                                                       *)
C18_NeverEnospcAlloc ==
    (CapOnly /\ cfg.max_use_bytes >= AllocBytes(Bytes(0, cfg.max_file_size))
       /\ Undisturbed)
        => /\ ret.kind # "ENOSPC"
           /\ (Wrote /\ call.fault = "none") => ret = OkRet(call.len)
           /\ Used(dir) <= cfg.max_use_bytes + AllocBytes(Bytes(0, cfg.max_file_size))

\* a write admitted after reclamation deleted an older file
C18_Witness ==
    /\ CapOnly
    /\ cfg.max_use_bytes >= AllocBytes(Bytes(0, cfg.max_file_size))
    /\ Undisturbed
    /\ WroteOk
    /\ Events(log, "reject") # {}
    /\ Events(log, "delete") # {}
    /\ log[Len(log)].ev = "append"

\* the notifications of the last call, in order
IsNotification(e) == e.ev \in {"start_file", "end_file"}
Notifications == SelectSeq(log, IsNotification)

\* neither a hook nor the creation of a file failed in the last call
NoHookOrCreateFailed == call.fault \notin {"create", "end_file", "start_file"}

LoopProgress ==
    /\ \A i \in Events(log, "reject") :
         \/ i < Len(log) /\ log[i + 1].ev = "delete"
         \/ i = Len(log) /\ ret.kind # "Ok"
    /\ \A i \in Events(log, "delete") : log[i].name # log[i].cur
    /\ IF ret.kind = "Ok"
       THEN Count(log, "append") = 1 /\ log[Len(log)].ev = "append"
       ELSE Count(log, "append") = 0

\* no file was removed by somebody else during the last call
NoRace == Wrote /\ call.fault # "remove"

(* C20 as stated: absent external changes every write terminates: each      *)
(* iteration of the admission loop deletes a matching non-current file or   *)
(* ends the call with an error, a write performs at most as many deletions  *)
(* as there were non-current matching files when it began, and then         *)
(* appends or returns an error.                                             *)
C20_DeletionsBounded ==
    NoRace => (LoopProgress /\ Count(log, "delete") <= call.pre_others)

(* C20 as amended: the same, with the deletions bounded by the non-current  *)
(* matching files when the admission loop began: those when the call        *)
(* began and, if the call rotated, the file it superseded.                  *)
C20_DeletionsBoundedAfterRotation ==
    NoRace =>
        /\ LoopProgress
        /\ Count(log, "delete")
              <= call.pre_others + (IF Creations # {} THEN 1 ELSE 0)

\* a write that rotated and then deleted the file it had superseded
C20_Witness ==
    /\ WroteOk
    /\ Creations # {}
    /\ Count(log, "delete") = call.pre_others + 1
    /\ \E i \in Events(log, "delete") : log[i].name = log[1].cur

====
